---- MODULE Spec2Model ----
(***************************************************************************)
(* Model of the corpus builder of historical-nanochat:                     *)
(*   data/process/shard_packager.py      iter_jsonl_texts, package_shards  *)
(*   data/process/contamination_check.py get_all_anachronisms,             *)
(*                                       check_for_modern_references,      *)
(*                                       check_contamination,              *)
(*                                       clean_gutenberg_headers           *)
(* Several state machines share the module: the packaging run (Spec;       *)
(* SpecRerun runs the packager a second time, SpecConfig with degenerate   *)
(* sizes, SpecFail with writes that fail), the reading of the input files  *)
(* (SpecIter, SpecFlow), the lexicon query (SpecLex), the detector         *)
(* (SpecCheck) and the header/footer normalizer (SpecClean).               *)
(***************************************************************************)
EXTENDS Integers, Sequences, FiniteSets, TLC

VARIABLES
    \* ---- package_shards: arguments
    input_lines,      \* the lines of the input files, in reading order
    chars_per_shard,
    row_group_size,
    shuffle_seed,
    max_shards,       \* Optional[int]: None or Some(n)
    entropy,          \* state of the library generator before random.seed()
    \* ---- package_shards: locals
    pc,
    all_texts,
    pos,              \* the for loop's position in all_texts (1-based)
    shard_docs,
    shard_chars,
    shard_index,
    stats,
    \* ---- package_shards: the output directory
    files,            \* the shard files written, in the order of writing
    stats_file,       \* stats.json: None or Some(stats)
    \* ---- a second, independent run over the same documents
    run,
    first_input,
    first_files,
    \* ---- get_all_anachronisms: argument and result
    lex_pc,
    lex_cutoff,
    lex_terms,
    \* ---- clean_gutenberg_headers, applied and applied again
    clean_calls,      \* the number of applications so far
    clean_arg,        \* the text the last application was given
    clean_text,       \* the text: the input, then each application's result
    \* ---- iter_jsonl_texts, one step at a time
    it_pc,
    it_files,         \* input_files: what each path holds
    it_file,          \* position of the outer for loop (1-based)
    it_line,          \* position of the inner for loop (1-based)
    it_out,           \* the texts yielded so far
    it_seen,          \* the texts given to check_contamination so far
    \* ---- check_contamination: arguments and result
    chk_pc,
    chk_text,
    chk_cutoff,
    chk_threshold,
    chk_result,
    chk_term,         \* the lexicon term added to the text, if one was
    chk_base          \* the result for the text before the term was added

packVars == <<input_lines, chars_per_shard, row_group_size, shuffle_seed,
              max_shards, entropy, pc, all_texts, pos, shard_docs,
              shard_chars, shard_index, stats, files, stats_file,
              run, first_input, first_files>>

lexVars == <<lex_pc, lex_cutoff, lex_terms>>

cleanVars == <<clean_calls, clean_arg, clean_text>>

iterVars == <<it_pc, it_files, it_file, it_line, it_out, it_seen>>

chkVars == <<chk_pc, chk_text, chk_cutoff, chk_threshold, chk_result,
             chk_term, chk_base>>

vars == <<packVars, lexVars, cleanVars, iterVars, chkVars>>

----------------------------------------------------------------------------
(* Bounds of the model *)

\* the longest input (number of JSONL lines over all input files)
MaxLines == 3
\* the largest max_shards argument tried
MaxCap == 2
\* the cutoff years tried reach this far below the lowest and above the
\* highest threshold year of the lexicon
YearMargin == 40
\* the longest text given to clean_gutenberg_headers, in segments
MaxSegments == 4

----------------------------------------------------------------------------
(* Strings are sequences of characters. *)

Min(S) == CHOOSE x \in S : \A y \in S : x <= y
Max(S) == CHOOSE x \in S : \A y \in S : x >= y

LowerLetters == <<"a","b","c","d","e","f","g","h","i","j","k","l","m",
                  "n","o","p","q","r","s","t","u","v","w","x","y","z">>
UpperLetters == <<"A","B","C","D","E","F","G","H","I","J","K","L","M",
                  "N","O","P","Q","R","S","T","U","V","W","X","Y","Z">>

Position(letters, c) == CHOOSE k \in DOMAIN letters : letters[k] = c
IsOneOf(letters, c) == \E k \in DOMAIN letters : letters[k] = c

LowerChar(c) ==
    IF IsOneOf(UpperLetters, c)
    THEN LowerLetters[Position(UpperLetters, c)]
    ELSE c
UpperChar(c) ==
    IF IsOneOf(LowerLetters, c)
    THEN UpperLetters[Position(LowerLetters, c)]
    ELSE c

\* str.lower(), str.upper()
Unlowered(s) == s
Lower(s) == [k \in DOMAIN s |-> LowerChar(s[k])]
Upper(s) == [k \in DOMAIN s |-> UpperChar(s[k])]

\* s[a:b], s[a:], s[:b] for 0 <= a, b <= len(s)
Slice(s, a, b) == SubSeq(s, a + 1, b)
SliceFrom(s, a) == SubSeq(s, a + 1, Len(s))
SliceTo(s, b) == SubSeq(s, 1, b)

\* sub in s
Contains(s, sub) ==
    \/ sub = <<>>
    \/ \E i \in 0..(Len(s) - Len(sub)) :
          s[i + 1] = sub[1] /\ Slice(s, i, i + Len(sub)) = sub

\* s.find(sub, start): the lowest index at or after start, or -1
Find(s, sub, start) ==
    LET at == {i \in start..(Len(s) - Len(sub)) : Slice(s, i, i + Len(sub)) = sub}
    IN IF at = {} THEN -1 ELSE Min(at)

Whitespace == {" ", "\n", "\t", "\r"}

\* s.strip()
RECURSIVE LStrip(_)
LStrip(s) ==
    IF s # <<>> /\ Head(s) \in Whitespace THEN LStrip(Tail(s)) ELSE s
RECURSIVE RStrip(_)
RStrip(s) ==
    IF s # <<>> /\ s[Len(s)] \in Whitespace
    THEN RStrip(SliceTo(s, Len(s) - 1))
    ELSE s
Strip(s) == RStrip(LStrip(s))

RECURSIVE Concat(_)
Concat(ss) == IF ss = <<>> THEN <<>> ELSE Head(ss) \o Concat(Tail(ss))

----------------------------------------------------------------------------
(* Optional[int] *)

None == <<>>
Some(v) == <<v>>
IsNone(o) == o = <<>>
Value(o) == o[1]

\* Python truthiness of an Optional[int]: None and 0 are falsy
Truthy(o) == ~IsNone(o) /\ Value(o) # 0

----------------------------------------------------------------------------
(* The anachronism dictionaries: threshold year -> terms.  The conditional  *)
(* entries are evaluated as the interpreter evaluates them, on the literal *)
(* "context".                                                              *)

\* lines 23-52
ANACHRONISM_ENTITIES ==
    (1913 :> {
        <<"w","o","r","l","d"," ","w","a","r"," ","i">>,  \* world war i
        <<"w","o","r","l","d"," ","w","a","r"," ","1">>,  \* world war 1
        <<"t","h","e"," ","g","r","e","a","t"," ","w","a","r">>,  \* the great war
        <<"w","w","i">>,  \* wwi
        <<"w","o","r","l","d"," ","w","a","r"," ","i","i">>,  \* world war ii
        <<"w","o","r","l","d"," ","w","a","r"," ","2">>,  \* world war 2
        <<"w","w","i","i">>,  \* wwii
        <<"s","e","c","o","n","d"," ","w","o","r","l","d"," ","w","a","r">>,  \* second world war
        <<"r","u","s","s","i","a","n"," ","r","e","v","o","l","u","t","i","o","n">>,  \* russian revolution
        <<"b","o","l","s","h","e","v","i","k"," ","r","e","v","o","l","u","t","i","o","n">>,  \* bolshevik revolution
        <<"t","r","e","a","t","y"," ","o","f"," ","v","e","r","s","a","i","l","l","e","s">>,  \* treaty of versailles
        <<"l","e","a","g","u","e"," ","o","f"," ","n","a","t","i","o","n","s">>,  \* league of nations
        <<"g","r","e","a","t"," ","d","e","p","r","e","s","s","i","o","n">>,  \* great depression
        <<"s","t","o","c","k"," ","m","a","r","k","e","t"," ","c","r","a","s","h"," ","1","9","2","9">>,  \* stock market crash 1929
        <<"p","e","a","r","l"," ","h","a","r","b","o","r">>,  \* pearl harbor
        <<"d","-","d","a","y">>,  \* d-day
        <<"h","i","r","o","s","h","i","m","a">>,  \* hiroshima
        <<"n","a","g","a","s","a","k","i">>,  \* nagasaki
        <<"h","o","l","o","c","a","u","s","t">>,  \* holocaust
        <<"c","o","n","c","e","n","t","r","a","t","i","o","n"," ","c","a","m","p">>,  \* concentration camp
        <<"a","u","s","c","h","w","i","t","z">>,  \* auschwitz
        <<"c","o","l","d"," ","w","a","r">>,  \* cold war
        <<"k","o","r","e","a","n"," ","w","a","r">>,  \* korean war
        <<"v","i","e","t","n","a","m"," ","w","a","r">>,  \* vietnam war
        <<"c","u","b","a","n"," ","m","i","s","s","i","l","e"," ","c","r","i","s","i","s">>,  \* cuban missile crisis
        <<"b","a","y"," ","o","f"," ","p","i","g","s">>,  \* bay of pigs
        <<"m","o","o","n"," ","l","a","n","d","i","n","g">>,  \* moon landing
        <<"a","p","o","l","l","o"," ","1","1">>  \* apollo 11
    })
    @@ (1900 :> {
        <<"w","r","i","g","h","t"," ","b","r","o","t","h","e","r","s">>,  \* wright brothers
        <<"k","i","t","t","y"," ","h","a","w","k">>,  \* kitty hawk
        <<"f","i","r","s","t"," ","f","l","i","g","h","t">>,  \* first flight
        <<"w","o","r","l","d"," ","w","a","r">>,  \* world war
        <<"w","w","i">>,  \* wwi
        <<"w","w","i","i">>,  \* wwii
        <<"r","u","s","s","i","a","n"," ","r","e","v","o","l","u","t","i","o","n">>,  \* russian revolution
        <<"b","o","l","s","h","e","v","i","k">>,  \* bolshevik
        <<"r","e","l","a","t","i","v","i","t","y">>,  \* relativity
        <<"q","u","a","n","t","u","m"," ","m","e","c","h","a","n","i","c","s">>,  \* quantum mechanics
        <<"r","a","d","i","o"," ","b","r","o","a","d","c","a","s","t">>,  \* radio broadcast
        <<"t","e","l","e","v","i","s","i","o","n">>  \* television
    })
    @@ (1850 :> {
        \* "civil war" if "american" in "context" else ""
        IF Contains(<<"c","o","n","t","e","x","t">>, <<"a","m","e","r","i","c","a","n">>)
            THEN <<"c","i","v","i","l"," ","w","a","r">>
            ELSE <<>>,
        <<"d","a","r","w","i","n","'","s"," ","o","r","i","g","i","n"," ","o","f"," ","s","p","e","c","i","e","s">>,  \* darwin's origin of species
        <<"t","e","l","e","p","h","o","n","e">>,  \* telephone
        <<"e","l","e","c","t","r","i","c"," ","l","i","g","h","t">>,  \* electric light
        <<"l","i","g","h","t"," ","b","u","l","b">>,  \* light bulb
        <<"a","u","t","o","m","o","b","i","l","e">>,  \* automobile
        <<"m","o","t","o","r"," ","c","a","r">>,  \* motor car
        <<"i","n","t","e","r","n","a","l"," ","c","o","m","b","u","s","t","i","o","n">>,  \* internal combustion
        <<"a","i","r","p","l","a","n","e">>,  \* airplane
        <<"a","e","r","o","p","l","a","n","e">>,  \* aeroplane
        <<"w","o","r","l","d"," ","w","a","r">>,  \* world war
        <<"w","w","i">>,  \* wwi
        <<"w","w","i","i">>  \* wwii
    })

\* lines 54-73
ANACHRONISM_PEOPLE ==
    (1913 :> {
        <<"a","d","o","l","f"," ","h","i","t","l","e","r">>,  \* adolf hitler
        <<"h","i","t","l","e","r">>,  \* hitler
        <<"b","e","n","i","t","o"," ","m","u","s","s","o","l","i","n","i">>,  \* benito mussolini
        <<"m","u","s","s","o","l","i","n","i">>,  \* mussolini
        <<"j","o","s","e","p","h"," ","s","t","a","l","i","n">>,  \* joseph stalin
        <<"s","t","a","l","i","n">>,  \* stalin
        <<"f","r","a","n","k","l","i","n"," ","r","o","o","s","e","v","e","l","t">>,  \* franklin roosevelt
        <<"f","d","r">>,  \* fdr
        \* "winston churchill" if "prime minister" in "context" else ""
        IF Contains(<<"c","o","n","t","e","x","t">>, <<"p","r","i","m","e"," ","m","i","n","i","s","t","e","r">>)
            THEN <<"w","i","n","s","t","o","n"," ","c","h","u","r","c","h","i","l","l">>
            ELSE <<>>,
        \* "albert einstein" if "relativity" in "context" else ""
        IF Contains(<<"c","o","n","t","e","x","t">>, <<"r","e","l","a","t","i","v","i","t","y">>)
            THEN <<"a","l","b","e","r","t"," ","e","i","n","s","t","e","i","n">>
            ELSE <<>>,
        <<"m","a","o"," ","z","e","d","o","n","g">>,  \* mao zedong
        <<"m","a","o"," ","t","s","e","-","t","u","n","g">>,  \* mao tse-tung
        <<"f","i","d","e","l"," ","c","a","s","t","r","o">>,  \* fidel castro
        <<"j","o","h","n"," ","f"," ","k","e","n","n","e","d","y">>,  \* john f kennedy
        <<"j","f","k">>,  \* jfk
        <<"m","a","r","t","i","n"," ","l","u","t","h","e","r"," ","k","i","n","g">>,  \* martin luther king
        <<"n","e","l","s","o","n"," ","m","a","n","d","e","l","a">>  \* nelson mandela
    })
    @@ (1900 :> {
        <<"w","r","i","g","h","t"," ","b","r","o","t","h","e","r","s">>,  \* wright brothers
        <<"a","l","b","e","r","t"," ","e","i","n","s","t","e","i","n">>,  \* albert einstein
        \* "marie curie" if "radioactivity" in "context" else ""
        IF Contains(<<"c","o","n","t","e","x","t">>, <<"r","a","d","i","o","a","c","t","i","v","i","t","y">>)
            THEN <<"m","a","r","i","e"," ","c","u","r","i","e">>
            ELSE <<>>
    })

\* lines 75-100
ANACHRONISM_TECHNOLOGY ==
    (1913 :> {
        <<"t","e","l","e","v","i","s","i","o","n">>,  \* television
        <<"t","v"," ","s","e","t">>,  \* tv set
        <<"r","a","d","i","o"," ","b","r","o","a","d","c","a","s","t">>,  \* radio broadcast
        <<"w","i","r","e","l","e","s","s"," ","r","a","d","i","o">>,  \* wireless radio
        <<"c","o","m","p","u","t","e","r">>,  \* computer
        <<"c","o","m","p","u","t","i","n","g"," ","m","a","c","h","i","n","e">>,  \* computing machine
        <<"a","t","o","m","i","c"," ","b","o","m","b">>,  \* atomic bomb
        <<"n","u","c","l","e","a","r"," ","w","e","a","p","o","n">>,  \* nuclear weapon
        <<"h","y","d","r","o","g","e","n"," ","b","o","m","b">>,  \* hydrogen bomb
        <<"j","e","t"," ","e","n","g","i","n","e">>,  \* jet engine
        <<"j","e","t"," ","a","i","r","c","r","a","f","t">>,  \* jet aircraft
        <<"h","e","l","i","c","o","p","t","e","r">>,  \* helicopter
        <<"p","e","n","i","c","i","l","l","i","n">>,  \* penicillin
        <<"a","n","t","i","b","i","o","t","i","c">>,  \* antibiotic
        <<"p","l","a","s","t","i","c">>,  \* plastic
        <<"n","y","l","o","n">>  \* nylon
    })
    @@ (1900 :> {
        <<"a","i","r","p","l","a","n","e">>,  \* airplane
        <<"a","e","r","o","p","l","a","n","e">>,  \* aeroplane
        <<"a","i","r","c","r","a","f","t">>,  \* aircraft
        <<"r","a","d","i","o">>,  \* radio
        <<"w","i","r","e","l","e","s","s"," ","t","e","l","e","g","r","a","p","h","y">>,  \* wireless telegraphy
        <<"a","u","t","o","m","o","b","i","l","e">>,  \* automobile
        <<"m","o","t","o","r"," ","c","a","r">>,  \* motor car
        <<"m","o","v","i","n","g"," ","p","i","c","t","u","r","e">>,  \* moving picture
        <<"c","i","n","e","m","a">>  \* cinema
    })
    @@ (1850 :> {
        <<"t","e","l","e","p","h","o","n","e">>,  \* telephone
        <<"p","h","o","n","o","g","r","a","p","h">>,  \* phonograph
        <<"g","r","a","m","o","p","h","o","n","e">>,  \* gramophone
        <<"e","l","e","c","t","r","i","c"," ","l","i","g","h","t">>,  \* electric light
        <<"i","n","c","a","n","d","e","s","c","e","n","t">>,  \* incandescent
        <<"t","y","p","e","w","r","i","t","e","r">>,  \* typewriter
        \* "photograph" if "daguerreotype" not in "context" else ""
        IF ~Contains(<<"c","o","n","t","e","x","t">>, <<"d","a","g","u","e","r","r","e","o","t","y","p","e">>)
            THEN <<"p","h","o","t","o","g","r","a","p","h">>
            ELSE <<>>
    })

\* lines 102-120
ANACHRONISM_CONCEPTS ==
    (1913 :> {
        <<"n","a","z","i">>,  \* nazi
        <<"n","a","z","i","s","m">>,  \* nazism
        <<"f","a","s","c","i","s","m">>,  \* fascism
        <<"f","a","s","c","i","s","t">>,  \* fascist
        <<"s","o","v","i","e","t"," ","u","n","i","o","n">>,  \* soviet union
        <<"u","s","s","r">>,  \* ussr
        <<"s","o","v","i","e","t">>,  \* soviet
        <<"c","o","m","m","u","n","i","s","t"," ","p","a","r","t","y">>,  \* communist party
        <<"u","n","i","t","e","d"," ","n","a","t","i","o","n","s">>,  \* united nations
        \* "human rights" if "declaration" in "context" else ""
        IF Contains(<<"c","o","n","t","e","x","t">>, <<"d","e","c","l","a","r","a","t","i","o","n">>)
            THEN <<"h","u","m","a","n"," ","r","i","g","h","t","s">>
            ELSE <<>>,
        <<"g","e","n","o","c","i","d","e">>,  \* genocide
        <<"e","x","i","s","t","e","n","t","i","a","l","i","s","m">>,  \* existentialism
        \* "psychoanalysis" if "widespread" in "context" else ""
        IF Contains(<<"c","o","n","t","e","x","t">>, <<"w","i","d","e","s","p","r","e","a","d">>)
            THEN <<"p","s","y","c","h","o","a","n","a","l","y","s","i","s">>
            ELSE <<>>
    })
    @@ (1900 :> {
        <<"r","a","d","i","o","a","c","t","i","v","i","t","y">>,  \* radioactivity
        <<"r","a","d","i","a","t","i","o","n">>,  \* radiation
        <<"x","-","r","a","y">>,  \* x-ray
        <<"e","l","e","c","t","r","o","n">>,  \* electron
        <<"r","e","l","a","t","i","v","i","t","y">>,  \* relativity
        <<"q","u","a","n","t","u","m">>  \* quantum
    })

\* line 133
AnachronisticAfter(year, cutoff_year) == year > cutoff_year
AnachronisticBefore(year, cutoff_year) == year <= cutoff_year
Anachronistic(year, cutoff_year) == year >= cutoff_year

\* line 136: if term
KeepTermAll(term) == TRUE
KeepTerm(term) == term # <<>>

\* lines 130-131
Categories == <<ANACHRONISM_ENTITIES, ANACHRONISM_PEOPLE,
                ANACHRONISM_TECHNOLOGY, ANACHRONISM_CONCEPTS>>

\* lines 132-137: the terms one category adds
CategoryTerms(category, cutoff_year) ==
    UNION { {Lower(term) : term \in {t \in category[year] : KeepTerm(t)}} :
            year \in {y \in DOMAIN category : Anachronistic(y, cutoff_year)} }

get_all_anachronisms(cutoff_year) ==
    UNION { CategoryTerms(Categories[c], cutoff_year) : c \in DOMAIN Categories }

----------------------------------------------------------------------------
(* clean_gutenberg_headers *)

Newline == <<"\n">>

\* lines 248-253
header_end_markers == <<
    <<"*","*","*"," ","S","T","A","R","T"," ","O","F"," ","T","H","I","S"," ",
      "P","R","O","J","E","C","T"," ","G","U","T","E","N","B","E","R","G">>,
    <<"*","*","*"," ","S","T","A","R","T"," ","O","F"," ","T","H","E"," ",
      "P","R","O","J","E","C","T"," ","G","U","T","E","N","B","E","R","G">>,
    <<"*","E","N","D","*","T","H","E"," ","S","M","A","L","L"," ",
      "P","R","I","N","T">>,
    <<"E","N","D"," ","O","F"," ","T","H","E"," ","P","R","O","J","E","C","T"," ",
      "G","U","T","E","N","B","E","R","G"," ","H","E","A","D","E","R">> >>

\* lines 255-260
footer_start_markers == <<
    <<"*","*","*"," ","E","N","D"," ","O","F"," ","T","H","I","S"," ",
      "P","R","O","J","E","C","T"," ","G","U","T","E","N","B","E","R","G">>,
    <<"*","*","*"," ","E","N","D"," ","O","F"," ","T","H","E"," ",
      "P","R","O","J","E","C","T"," ","G","U","T","E","N","B","E","R","G">>,
    <<"E","n","d"," ","o","f"," ","P","r","o","j","e","c","t"," ",
      "G","u","t","e","n","b","e","r","g">>,
    <<"E","n","d"," ","o","f"," ","t","h","e"," ","P","r","o","j","e","c","t"," ",
      "G","u","t","e","n","b","e","r","g">> >>

\* text.upper().find(marker.upper())
FindMarker(text, marker) == Find(Upper(text), Upper(marker), 0)

\* the markers of the list that occur in the text; the loop stops at the first
MarkersFound(text, markers) ==
    {m \in DOMAIN markers : FindMarker(text, markers[m]) # -1}

\* lines 262-270
RemoveHeader(text) ==
    LET found == MarkersFound(text, header_end_markers)
    IN IF found = {} THEN text
       ELSE LET idx == FindMarker(text, header_end_markers[Min(found)])
                end_idx == Find(text, Newline, idx)
            IN IF end_idx # -1 THEN SliceFrom(text, end_idx + 1) ELSE text

\* lines 272-277
RemoveFooter(text) ==
    LET found == MarkersFound(text, footer_start_markers)
    IN IF found = {} THEN text
       ELSE SliceTo(text, FindMarker(text, footer_start_markers[Min(found)]))

\* lines 242-279
clean_gutenberg_headers(text) == Strip(RemoveFooter(RemoveHeader(text)))

----------------------------------------------------------------------------
(* Input records.  A line of a JSONL file either fails json.loads or holds  *)
(* a record; a record carries its text, its source, the text that          *)
(* clean_gutenberg_headers leaves of it, and the verdict check_contamination*)
(* gives on the text handed to it.  A text is its name and its length.     *)

Text(name, n) == [name |-> name, len |-> n]

BadLine == [json |-> FALSE, source |-> "other", text |-> Text("", 0),
            stripped |-> Text("", 0), is_contaminated |-> FALSE]

Record(source, text, stripped, verdict) ==
    [json |-> TRUE, source |-> source, text |-> text,
     stripped |-> stripped, is_contaminated |-> verdict]

InputLines ==
    { BadLine,
      Record("other",     Text("s", 50),  Text("s", 50),  FALSE),
      Record("other",     Text("a", 100), Text("a", 100), FALSE),
      Record("other",     Text("b", 150), Text("b", 150), FALSE),
      Record("gutenberg", Text("G", 300), Text("g", 120), FALSE),
      Record("gutenberg", Text("E", 100), Text("", 0),    FALSE),
      Record("other",     Text("x", 200), Text("x", 200), TRUE) }

CharsPerShard == {100, 250}
RowGroupSizes == {1, 2}
ShuffleSeeds == {42, 7}
MaxShards == {None} \cup {Some(n) : n \in 0..MaxCap}
Entropies == {0, 1}

RECURSIVE SeqsUpTo(_, _)
SeqsUpTo(S, n) ==
    IF n = 0 THEN {<<>>}
    ELSE LET shorter == SeqsUpTo(S, n - 1)
             longest == {t \in shorter : Len(t) = n - 1}
         IN shorter \cup {Append(s, e) : s \in longest, e \in S}

RECURSIVE SumLen(_)
SumLen(docs) == IF docs = <<>> THEN 0 ELSE Head(docs).len + SumLen(Tail(docs))

----------------------------------------------------------------------------
(* iter_jsonl_texts *)

\* the text a record reaches the detector with (lines 59-66)
CleanedAlways(line) == line.stripped
CleanedText(line) ==
    IF line.source = "gutenberg" THEN line.stripped ELSE line.text

\* the record's text is checked at all (lines 57-62)
ReachesDetector(line) ==
    line.json /\ line.text.len # 0 /\ ~(line.text.len < 100)

\* the record's text is yielded (lines 69-74)
Yields(line) == ReachesDetector(line) /\ ~line.is_contaminated

RECURSIVE iter_jsonl_texts(_)
iter_jsonl_texts(lines) ==
    IF lines = <<>> THEN <<>>
    ELSE IF Yields(Head(lines))
         THEN <<CleanedText(Head(lines))>> \o iter_jsonl_texts(Tail(lines))
         ELSE iter_jsonl_texts(Tail(lines))

----------------------------------------------------------------------------
(* random.seed(shuffle_seed); random.shuffle(all_texts).  The generator is  *)
(* the library's; here it is a small congruential generator, a              *)
(* deterministic function of its state, as the library's is.               *)

\* the generator's state once random.seed(shuffle_seed) has run
SeedStateUnseeded(seed, osEntropy) == osEntropy
SeedState(seed, osEntropy) == seed

Advance(g) == (g * 5 + 3) % 64

\* random._randbelow(n), on the generator's new state
RandBelow(g, n) == g % n

Swap(x, i, j) == [x EXCEPT ![i] = x[j], ![j] = x[i]]

\* for i in reversed(range(1, len(x))): j = randbelow(i + 1); swap x[i], x[j]
RECURSIVE ShuffleFrom(_, _, _)
ShuffleFrom(x, i, g) ==
    IF i < 2 THEN x
    ELSE LET g2 == Advance(g)
             j == RandBelow(g2, i) + 1
         IN ShuffleFrom(Swap(x, i, j), i - 1, g2)

Shuffle(x, g) == ShuffleFrom(x, Len(x), g)

----------------------------------------------------------------------------
(* package_shards *)

EmptyStats == [total_docs |-> 0, total_chars |-> 0, num_shards |-> 0,
               rejected_contamination |-> 0]

\* lines 153-156
ShardReadyEither(chars, ndocs, cps, rgs) == chars >= cps \/ ndocs % rgs = 0
ShardReadyCharsOnly(chars, ndocs, cps, rgs) == chars >= cps
ShardReady(chars, ndocs, cps, rgs) == chars >= cps /\ ndocs % rgs = 0

\* line 144
CapReached(cap, index) == Truthy(cap) /\ index >= Value(cap)

\* line 178
FlushAllowedTruthy(cap, index) == ~Truthy(cap) \/ index < Value(cap)
FlushAllowedCapped(cap, index) == ~IsNone(cap) /\ index < Value(cap)
FlushAllowed(cap, index) == IsNone(cap) \/ index < Value(cap)

\* line 175
NextShardIndexStuck(index) == index
NextShardIndex(index) == index + 1

\* pq.write_table(shard_table, shard_path, ...)
ShardFile(index, docs, by) == [index |-> index, docs |-> docs, by |-> by]

InitArgs ==
    /\ input_lines \in SeqsUpTo(InputLines, MaxLines)
    /\ chars_per_shard \in CharsPerShard
    /\ row_group_size \in RowGroupSizes
    /\ shuffle_seed \in ShuffleSeeds
    /\ max_shards \in MaxShards
    /\ entropy = 0

\* lines 104-115 and the locals of lines 139-141
Enter ==
    /\ pc = "collect"
    /\ all_texts = <<>>
    /\ pos = 1
    /\ shard_docs = <<>>
    /\ shard_chars = 0
    /\ shard_index = 0
    /\ stats = EmptyStats
    /\ files = <<>>
    /\ stats_file = None

InitPack ==
    /\ InitArgs
    /\ Enter
    /\ run = 1
    /\ first_input = <<>>
    /\ first_files = <<>>

argVars == <<input_lines, chars_per_shard, row_group_size, shuffle_seed,
             max_shards, entropy>>
runVars == <<run, first_input, first_files>>
\* the variables of the other machines
otherVars == <<lexVars, cleanVars, iterVars, chkVars>>

\* lines 117-130: collect, and return early when nothing was accepted
Collect ==
    /\ pc = "collect"
    /\ all_texts' = iter_jsonl_texts(input_lines)
    /\ pc' = IF all_texts' = <<>> THEN "done" ELSE "shuffle"
    /\ UNCHANGED <<otherVars, argVars, runVars, pos, shard_docs, shard_chars,
                   shard_index, stats, files, stats_file>>

\* lines 132-141
ShuffleTexts ==
    /\ pc = "shuffle"
    /\ all_texts' = Shuffle(all_texts, SeedState(shuffle_seed, entropy))
    /\ pc' = "loop"
    /\ UNCHANGED <<otherVars, argVars, runVars, pos, shard_docs, shard_chars,
                   shard_index, stats, files, stats_file>>

\* lines 143-145: the break
LoopBreak ==
    /\ pc = "loop"
    /\ pos <= Len(all_texts)
    /\ CapReached(max_shards, shard_index)
    /\ pc' = "flush"
    /\ UNCHANGED <<otherVars, argVars, runVars, all_texts, pos, shard_docs,
                   shard_chars, shard_index, stats, files, stats_file>>

\* lines 147-175: one iteration of the loop
LoopBody ==
    /\ pc = "loop"
    /\ pos <= Len(all_texts)
    /\ ~CapReached(max_shards, shard_index)
    /\ row_group_size # 0
    /\ LET text == all_texts[pos]
           docs == Append(shard_docs, text)
           chars == shard_chars + text.len
           counted == [stats EXCEPT !.total_docs = @ + 1,
                                    !.total_chars = @ + text.len]
       IN IF ShardReady(chars, Len(docs), chars_per_shard, row_group_size)
          THEN /\ files' = Append(files, ShardFile(shard_index, docs, "loop"))
               /\ stats' = [counted EXCEPT !.num_shards = @ + 1]
               /\ shard_docs' = <<>>
               /\ shard_chars' = 0
               /\ shard_index' = NextShardIndex(shard_index)
          ELSE /\ shard_docs' = docs
               /\ shard_chars' = chars
               /\ stats' = counted
               /\ UNCHANGED <<files, shard_index>>
    /\ pos' = pos + 1
    /\ UNCHANGED <<otherVars, argVars, runVars, all_texts, pc, stats_file>>

\* the for loop runs out of documents
LoopEnd ==
    /\ pc = "loop"
    /\ pos > Len(all_texts)
    /\ pc' = "flush"
    /\ UNCHANGED <<otherVars, argVars, runVars, all_texts, pos, shard_docs,
                   shard_chars, shard_index, stats, files, stats_file>>

\* lines 177-192
Flush ==
    /\ pc = "flush"
    /\ IF shard_docs # <<>> /\ FlushAllowed(max_shards, shard_index)
       THEN /\ files' = Append(files, ShardFile(shard_index, shard_docs, "flush"))
            /\ stats' = [stats EXCEPT !.num_shards = @ + 1]
       ELSE UNCHANGED <<files, stats>>
    /\ pc' = "save"
    /\ UNCHANGED <<otherVars, argVars, runVars, all_texts, pos, shard_docs,
                   shard_chars, shard_index, stats_file>>

\* lines 194-205
SaveStats ==
    /\ pc = "save"
    /\ stats_file' = Some(stats)
    /\ pc' = "done"
    /\ UNCHANGED <<otherVars, argVars, runVars, all_texts, pos, shard_docs,
                   shard_chars, shard_index, stats, files>>

NextPack ==
    \/ Collect
    \/ ShuffleTexts
    \/ LoopBreak
    \/ LoopBody
    \/ LoopEnd
    \/ Flush
    \/ SaveStats

\* the other machines, at rest
LexIdle == lex_pc = "idle" /\ lex_cutoff = 0 /\ lex_terms = {}
CleanIdle == clean_calls = 0 /\ clean_arg = <<>> /\ clean_text = <<>>
IterIdle ==
    /\ it_pc = "idle"
    /\ it_files = <<>>
    /\ it_file = 1
    /\ it_line = 1
    /\ it_out = <<>>
    /\ it_seen = <<>>
ChkIdle ==
    /\ chk_pc = "idle"
    /\ chk_text = <<>>
    /\ chk_cutoff = 0
    /\ chk_threshold = None
    /\ chk_result = None
    /\ chk_term = None
    /\ chk_base = None

Init == InitPack /\ LexIdle /\ CleanIdle /\ IterIdle /\ ChkIdle
Next == NextPack
Spec == Init /\ [][Next]_vars

----------------------------------------------------------------------------
(* A second, independent run of package_shards (a new process, a fresh      *)
(* output directory) with the same arguments over the same documents: the  *)
(* same lines, or the same lines with two of them exchanged (the same      *)
(* multiset of documents in another order).                                *)

Rerun ==
    /\ pc = "done"
    /\ run = 1
    /\ run' = 2
    /\ first_input' = input_lines
    /\ first_files' = files
    /\ \E i \in DOMAIN input_lines :
          \E j \in {i, i + 1} \cap DOMAIN input_lines :
              input_lines' = Swap(input_lines, i, j)
    /\ entropy' = entropy + 1
    /\ pc' = "collect"
    /\ all_texts' = <<>>
    /\ pos' = 1
    /\ shard_docs' = <<>>
    /\ shard_chars' = 0
    /\ shard_index' = 0
    /\ stats' = EmptyStats
    /\ files' = <<>>
    /\ stats_file' = None
    /\ UNCHANGED <<otherVars, chars_per_shard, row_group_size,
                   shuffle_seed, max_shards>>

\* the runs compared are runs over accepted documents
AcceptedLines == {line \in InputLines : Yields(line)}

InitRerun ==
    /\ Init
    /\ \A k \in DOMAIN input_lines : input_lines[k] \in AcceptedLines
    /\ input_lines # <<>>

NextRerun == NextPack \/ Rerun
SpecRerun == InitRerun /\ [][NextRerun]_vars

----------------------------------------------------------------------------
(* Properties of package_shards *)

LastFile == files[Len(files)]

RECURSIVE DocsIn(_)
DocsIn(fs) == IF fs = <<>> THEN <<>> ELSE Head(fs).docs \o DocsIn(Tail(fs))

Undersized(file) ==
    /\ SumLen(file.docs) < chars_per_shard
    /\ Len(file.docs) % row_group_size # 0

\* C1: every shard sealed inside the accumulation loop holds at least
\* chars_per_shard characters and a multiple of row_group_size documents;
\* the only shard that may fall short is the flushed one, which is the last.
ShardSizeInvariant ==
    \A k \in DOMAIN files :
        /\ files[k].by = "loop" =>
              /\ SumLen(files[k].docs) >= chars_per_shard
              /\ Len(files[k].docs) % row_group_size = 0
        /\ files[k].by = "flush" => k = Len(files)

\* a run that sealed a shard in the loop and flushed an undersized,
\* unaligned final one
ShardSizeWitness ==
    /\ pc = "done"
    /\ Len(files) >= 2
    /\ files[1].by = "loop"
    /\ LastFile.by = "flush"
    /\ Undersized(LastFile)

\* C2 as stated: a second run with the same seed over the same multiset of
\* accepted documents writes the same shards with the same documents in the
\* same order.
ReproducibleForMultiset ==
    (run = 2 /\ pc = "done") => files = first_files

\* C2 as amended: a second run with the same seed over the same sequence of
\* accepted documents (the same documents in the same order) writes the same
\* shards with the same documents in the same order.
ReproducibleForSequence ==
    (/\ run = 2
     /\ pc = "done"
     /\ iter_jsonl_texts(input_lines) = iter_jsonl_texts(first_input))
        => files = first_files

\* a second run over the same sequence, whose shuffle did reorder the
\* documents and which wrote several shards
ReproducibleWitness ==
    /\ run = 2
    /\ pc = "done"
    /\ input_lines = first_input
    /\ all_texts # iter_jsonl_texts(input_lines)
    /\ Len(files) >= 2

\* C3 as stated: with max_shards an integer, no more than max_shards shard
\* files are written.
CapRespected ==
    ~IsNone(max_shards) => Len(files) <= Value(max_shards)

\* C4: when the loop has run out of documents, the flush writes the buffer
\* as one more shard if the buffer is non-empty and fewer than max_shards
\* shards were written (or max_shards is absent), and writes nothing
\* otherwise.
FlushWritesRemainder ==
    [][(pc = "flush" /\ pos > Len(all_texts)) =>
         files' = IF /\ shard_docs # <<>>
                     /\ (IsNone(max_shards) \/ Len(files) < Value(max_shards))
                  THEN Append(files, ShardFile(Len(files), shard_docs, "flush"))
                  ELSE files]_vars

\* the flush has written an undersized, unaligned final shard
FlushWitness ==
    /\ pc = "save"
    /\ pos > Len(all_texts)
    /\ files # <<>>
    /\ LastFile.by = "flush"
    /\ LastFile.docs = shard_docs
    /\ Undersized(LastFile)

\* C5 as stated: at the end of a run the statistics count exactly the
\* documents and characters of the shard files written, and the files.
StatsMatchFiles ==
    pc = "done" =>
        /\ stats.total_docs = Len(DocsIn(files))
        /\ stats.total_chars = SumLen(DocsIn(files))
        /\ stats.num_shards = Len(files)

\* the documents the detector rejected
Rejected(lines) ==
    Cardinality({k \in DOMAIN lines :
                    ReachesDetector(lines[k]) /\ lines[k].is_contaminated})

\* C6 as stated: rejected_contamination, as returned and as serialized, is
\* the number of documents the contamination detector rejected.
RejectedCounted ==
    pc = "done" =>
        /\ stats.rejected_contamination = Rejected(input_lines)
        /\ ~IsNone(stats_file) =>
              Value(stats_file).rejected_contamination = Rejected(input_lines)

\* C7: the shard files written carry the indices 0, 1, ..., num_shards-1 in
\* the order of writing, the flushed shard included.
ShardIndicesContiguous ==
    /\ stats.num_shards = Len(files)
    /\ \A k \in DOMAIN files : files[k].index = k - 1

\* two shards sealed in the loop and a third flushed
ShardIndicesWitness ==
    /\ pc = "done"
    /\ Len(files) = 3
    /\ files[3].by = "flush"
    /\ files[3].index = 2

----------------------------------------------------------------------------
(* get_all_anachronisms, called with one cutoff year *)

Thresholds == UNION {DOMAIN Categories[c] : c \in DOMAIN Categories}

CutoffYears == (Min(Thresholds) - YearMargin)..(Max(Thresholds) + YearMargin)

\* package_shards at rest
PackIdle ==
    /\ input_lines = <<>>
    /\ chars_per_shard = 0
    /\ row_group_size = 0
    /\ shuffle_seed = 0
    /\ max_shards = None
    /\ entropy = 0
    /\ pc = "idle"
    /\ all_texts = <<>>
    /\ pos = 1
    /\ shard_docs = <<>>
    /\ shard_chars = 0
    /\ shard_index = 0
    /\ stats = EmptyStats
    /\ files = <<>>
    /\ stats_file = None
    /\ run = 1
    /\ first_input = <<>>
    /\ first_files = <<>>

InitLex ==
    /\ lex_pc = "call"
    /\ lex_cutoff \in CutoffYears
    /\ lex_terms = {}
    /\ PackIdle
    /\ CleanIdle
    /\ IterIdle
    /\ ChkIdle

\* lines 123-139
LexQuery ==
    /\ lex_pc = "call"
    /\ lex_terms' = get_all_anachronisms(lex_cutoff)
    /\ lex_pc' = "done"
    /\ UNCHANGED <<lex_cutoff, packVars, cleanVars, iterVars, chkVars>>

NextLex == LexQuery
SpecLex == InitLex /\ [][NextLex]_vars

----------------------------------------------------------------------------
(* clean_gutenberg_headers, applied to a text and again to its result *)

BodyText == <<"T","e","x","t">>

\* the pieces the texts tried are made of
Segments ==
    { header_end_markers[1], header_end_markers[3],
      footer_start_markers[1], footer_start_markers[4],
      Newline, BodyText }

CleanInputs == {Concat(ss) : ss \in SeqsUpTo(Segments, MaxSegments)}

InitClean ==
    /\ clean_calls = 0
    /\ clean_arg = <<>>
    /\ clean_text \in CleanInputs
    /\ PackIdle
    /\ LexIdle
    /\ IterIdle
    /\ ChkIdle

\* lines 242-279: one application, to the text or to the last result
CleanCall ==
    /\ clean_calls < 2
    /\ clean_arg' = clean_text
    /\ clean_text' = clean_gutenberg_headers(clean_text)
    /\ clean_calls' = clean_calls + 1
    /\ UNCHANGED <<packVars, lexVars, iterVars, chkVars>>

NextClean == CleanCall
SpecClean == InitClean /\ [][NextClean]_vars

----------------------------------------------------------------------------
(* Properties of get_all_anachronisms *)

\* the lexicon entries: every (category, threshold year, terms) of the tables
LexiconEntries ==
    UNION { { [category |-> c, threshold_year |-> y, terms |-> Categories[c][y]] :
              y \in DOMAIN Categories[c] } : c \in DOMAIN Categories }

\* C8: the result is the union, over the entries of all four tables whose
\* threshold year is at least the cutoff, of the lower-cased terms, and the
\* empty string is never in it.
LexiconUnion ==
    lex_pc = "done" =>
        /\ \A w \in lex_terms :
              \E e \in LexiconEntries :
                  /\ e.threshold_year >= lex_cutoff
                  /\ \E t \in e.terms : w = Lower(t)
        /\ \A e \in LexiconEntries :
              e.threshold_year >= lex_cutoff =>
                  \A t \in e.terms : t # <<>> => Lower(t) \in lex_terms
        /\ <<>> \notin lex_terms

\* a query at a threshold year itself, over entries that hold a placeholder
LexiconUnionWitness ==
    /\ lex_pc = "done"
    /\ lex_cutoff = 1913
    /\ \E e \in LexiconEntries : e.threshold_year = 1913 /\ <<>> \in e.terms
    /\ <<"h","i","t","l","e","r">> \in lex_terms
    /\ <<"a","i","r","p","l","a","n","e">> \notin lex_terms

\* C9: the result for a cutoff holds the result for every later cutoff.
LexiconMonotone ==
    lex_pc = "done" =>
        \A later \in CutoffYears :
            lex_cutoff < later => get_all_anachronisms(later) \subseteq lex_terms

\* a query whose result is strictly larger than a later cutoff's, which is
\* not empty
LexiconMonotoneWitness ==
    /\ lex_pc = "done"
    /\ \E later \in CutoffYears :
          /\ lex_cutoff < later
          /\ get_all_anachronisms(later) # {}
          /\ get_all_anachronisms(later) # lex_terms
          /\ get_all_anachronisms(later) \subseteq lex_terms

----------------------------------------------------------------------------
(* Properties of clean_gutenberg_headers *)

\* C10 as stated: applying clean_gutenberg_headers to its own result
\* changes nothing.
IdempotentClean ==
    clean_calls = 2 => clean_text = clean_arg

----------------------------------------------------------------------------
(* More properties of package_shards *)

\* C19 as stated: every run that ends without a fatal error has written its
\* statistics to stats.json, a run that accepted no document included.
StatsSerialized ==
    pc = "done" => (~IsNone(stats_file) /\ Value(stats_file) = stats)

\* the reference greedy partition of a sequence of documents: the number of
\* shards it makes, the last one holding whatever remains
RECURSIVE GreedyShards(_, _, _)
GreedyShards(docs, ndocs, chars) ==
    IF docs = <<>> THEN (IF ndocs > 0 THEN 1 ELSE 0)
    ELSE LET n == ndocs + 1
             c == chars + Head(docs).len
         IN IF c >= chars_per_shard /\ n % row_group_size = 0
            THEN 1 + GreedyShards(Tail(docs), 0, 0)
            ELSE GreedyShards(Tail(docs), n, c)

\* enough characters in a whole number of row groups
Sealable(docs) ==
    /\ docs # <<>>
    /\ SumLen(docs) >= chars_per_shard
    /\ Len(docs) % row_group_size = 0

\* C20: a shard is sealed at the first append after which the buffer holds
\* at least chars_per_shard characters in a multiple of row_group_size
\* documents: no buffer that waits and no proper prefix of a sealed shard
\* satisfies both, and with max_shards absent the run writes as many shards
\* as the reference greedy partition of the shuffled sequence.
GreedyRule ==
    /\ pc = "loop" => ~Sealable(shard_docs)
    /\ \A k \in DOMAIN files :
          files[k].by = "loop" =>
              /\ Sealable(files[k].docs)
              /\ \A j \in 1..(Len(files[k].docs) - 1) :
                    ~Sealable(SubSeq(files[k].docs, 1, j))
    /\ (pc = "done" /\ IsNone(max_shards)) =>
          Len(files) = GreedyShards(all_texts, 0, 0)

\* an uncapped run that sealed a shard of several documents and flushed the
\* rest
GreedyWitness ==
    /\ pc = "done"
    /\ IsNone(max_shards)
    /\ Len(files) >= 2
    /\ files[1].by = "loop"
    /\ Len(files[1].docs) >= 2
    /\ LastFile.by = "flush"
    /\ Len(files) = GreedyShards(all_texts, 0, 0)

----------------------------------------------------------------------------
(* package_shards called with a non-positive chars_per_shard or
   row_group_size *)

\* argument values of lines 84-85 that are not positive, next to valid ones
ConfigChars == {-100, 0, 100}
ConfigRowGroups == {0, 1}

InitConfig ==
    /\ input_lines \in SeqsUpTo(InputLines, MaxLines)
    /\ chars_per_shard \in ConfigChars
    /\ row_group_size \in ConfigRowGroups
    /\ chars_per_shard <= 0 \/ row_group_size <= 0
    /\ shuffle_seed = 42
    /\ max_shards \in MaxShards
    /\ entropy = 0
    /\ Enter
    /\ run = 1
    /\ first_input = <<>>
    /\ first_files = <<>>
    /\ LexIdle
    /\ CleanIdle
    /\ IterIdle
    /\ ChkIdle

\* lines 147-154 with row_group_size = 0: the document is appended and
\* counted, then the modulo of line 154 raises ZeroDivisionError, which
\* nothing catches
LoopRaise ==
    /\ pc = "loop"
    /\ pos <= Len(all_texts)
    /\ ~CapReached(max_shards, shard_index)
    /\ row_group_size = 0
    /\ LET text == all_texts[pos]
       IN /\ shard_docs' = Append(shard_docs, text)
          /\ shard_chars' = shard_chars + text.len
          /\ stats' = [stats EXCEPT !.total_docs = @ + 1,
                                    !.total_chars = @ + text.len]
    /\ pc' = "raised"
    /\ UNCHANGED <<otherVars, argVars, runVars, all_texts, pos, shard_index,
                   files, stats_file>>

NextConfig ==
    \/ NextPack
    \/ LoopRaise

SpecConfig == InitConfig /\ [][NextConfig]_vars

\* C17 as stated: a call with a non-positive chars_per_shard or
\* row_group_size is rejected before any processing: it never gets past its
\* entry, reads no input and writes nothing.
ConfigRejected ==
    (chars_per_shard <= 0 \/ row_group_size <= 0) =>
        /\ pc = "collect"
        /\ all_texts = <<>>
        /\ files = <<>>
        /\ stats_file = None

----------------------------------------------------------------------------
(* package_shards when pq.write_table fails *)

\* what a write that stops half way can leave at shard_path: nothing, or a
\* file holding less than the shard; lines 158-168 and 180-189 write to the
\* final name, with no temporary name, rename or clean-up around the call
LeftBehind(index, docs) ==
    {<<>>} \cup
    {<<ShardFile(index, SubSeq(docs, 1, k), "truncated")>> :
        k \in 0..(Len(docs) - 1)}

\* lines 147-168 with the write_table of line 164 raising: nothing catches
\* the exception, the run ends there
WriteFailsInLoop ==
    /\ pc = "loop"
    /\ pos <= Len(all_texts)
    /\ ~CapReached(max_shards, shard_index)
    /\ row_group_size # 0
    /\ LET text == all_texts[pos]
           docs == Append(shard_docs, text)
           chars == shard_chars + text.len
       IN /\ ShardReady(chars, Len(docs), chars_per_shard, row_group_size)
          /\ shard_docs' = docs
          /\ shard_chars' = chars
          /\ stats' = [stats EXCEPT !.total_docs = @ + 1,
                                    !.total_chars = @ + text.len]
          /\ \E left \in LeftBehind(shard_index, docs) :
                files' = files \o left
    /\ pc' = "failed"
    /\ UNCHANGED <<otherVars, argVars, runVars, all_texts, pos, shard_index,
                   stats_file>>

\* lines 178-185 with the write_table of line 181 raising
WriteFailsInFlush ==
    /\ pc = "flush"
    /\ (shard_docs # <<>> /\ FlushAllowed(max_shards, shard_index)) = TRUE
    /\ \E left \in LeftBehind(shard_index, shard_docs) :
          files' = files \o left
    /\ pc' = "failed"
    /\ UNCHANGED <<otherVars, argVars, runVars, all_texts, pos, shard_docs,
                   shard_chars, shard_index, stats, stats_file>>

NextFail ==
    \/ NextPack
    \/ WriteFailsInLoop
    \/ WriteFailsInFlush

SpecFail == Init /\ [][NextFail]_vars

\* C16 as stated: whatever happens during a write, no file under a final
\* shard name holds less than its shard.
AtomicWrites ==
    \A k \in DOMAIN files : files[k].by # "truncated"

----------------------------------------------------------------------------
(* iter_jsonl_texts as the generator runs: one file, one line at a time *)

MaxFiles == 3

\* what a path of input_files holds: no file, or the lines of a file
MissingFile == [exists |-> FALSE, lines |-> <<>>]
ExistingFile(lines) == [exists |-> TRUE, lines |-> lines]

IterLines ==
    { BadLine,
      Record("other", Text("a", 100), Text("a", 100), FALSE),
      Record("other", Text("b", 150), Text("b", 150), FALSE),
      Record("other", Text("x", 200), Text("x", 200), TRUE) }

\* the lists of at most nfiles paths that hold at most nlines lines together
RECURSIVE InputFiles(_, _)
InputFiles(nfiles, nlines) ==
    IF nfiles = 0 THEN {<<>>}
    ELSE {<<>>} \cup
         UNION { { <<file>> \o rest :
                      rest \in InputFiles(nfiles - 1,
                                          nlines - Len(file.lines)) } :
                 file \in {MissingFile} \cup
                          {ExistingFile(l) : l \in SeqsUpTo(IterLines, nlines)} }

\* the lines of the files that exist, in the order of reading
RECURSIVE AllLines(_)
AllLines(paths) ==
    IF paths = <<>> THEN <<>>
    ELSE (IF Head(paths).exists THEN Head(paths).lines ELSE <<>>)
         \o AllLines(Tail(paths))

InitIter ==
    /\ it_pc = "file"
    /\ it_files \in InputFiles(MaxFiles, MaxLines)
    /\ it_file = 1
    /\ it_line = 1
    /\ it_out = <<>>
    /\ it_seen = <<>>
    /\ PackIdle
    /\ LexIdle
    /\ CleanIdle
    /\ ChkIdle

iterOthers == <<packVars, lexVars, cleanVars, chkVars>>

\* lines 45-47: the path does not exist
FileMissing ==
    /\ it_pc = "file"
    /\ it_file <= Len(it_files)
    /\ ~it_files[it_file].exists
    /\ it_file' = it_file + 1
    /\ UNCHANGED <<iterOthers, it_pc, it_files, it_line, it_out, it_seen>>

\* lines 49-52: the file is opened
FileOpen ==
    /\ it_pc = "file"
    /\ it_file <= Len(it_files)
    /\ it_files[it_file].exists
    /\ it_pc' = "lines"
    /\ it_line' = 1
    /\ UNCHANGED <<iterOthers, it_files, it_file, it_out, it_seen>>

\* line 44: no path is left
FilesEnd ==
    /\ it_pc = "file"
    /\ it_file > Len(it_files)
    /\ it_pc' = "done"
    /\ UNCHANGED <<iterOthers, it_files, it_file, it_line, it_out, it_seen>>

\* lines 76-77: where the handler of json.JSONDecodeError goes on
OnDecodeErrorRaise == "raised"
OnDecodeError == "lines"

\* lines 57-58 and 76-77: json.loads raises on the line
LineDecodeError ==
    /\ it_pc = "lines"
    /\ it_line <= Len(it_files[it_file].lines)
    /\ ~it_files[it_file].lines[it_line].json
    /\ it_pc' = OnDecodeError
    /\ it_line' = it_line + 1
    /\ UNCHANGED <<iterOthers, it_files, it_file, it_out, it_seen>>

\* lines 57-72: the record is parsed and filtered out
LineSkipped ==
    /\ it_pc = "lines"
    /\ it_line <= Len(it_files[it_file].lines)
    /\ it_files[it_file].lines[it_line].json
    /\ ~Yields(it_files[it_file].lines[it_line])
    /\ it_seen' = IF ReachesDetector(it_files[it_file].lines[it_line])
                  THEN Append(it_seen,
                              CleanedText(it_files[it_file].lines[it_line]))
                  ELSE it_seen
    /\ it_line' = it_line + 1
    /\ UNCHANGED <<iterOthers, it_pc, it_files, it_file, it_out>>

\* lines 57-74: the record's text is yielded
LineYielded ==
    /\ it_pc = "lines"
    /\ it_line <= Len(it_files[it_file].lines)
    /\ Yields(it_files[it_file].lines[it_line])
    /\ it_seen' = Append(it_seen, CleanedText(it_files[it_file].lines[it_line]))
    /\ it_out' = Append(it_out, CleanedText(it_files[it_file].lines[it_line]))
    /\ it_line' = it_line + 1
    /\ UNCHANGED <<iterOthers, it_pc, it_files, it_file>>

\* line 52: the file has no more lines
FileEnd ==
    /\ it_pc = "lines"
    /\ it_line > Len(it_files[it_file].lines)
    /\ it_pc' = "file"
    /\ it_file' = it_file + 1
    /\ UNCHANGED <<iterOthers, it_files, it_line, it_out, it_seen>>

NextIter ==
    \/ FileMissing
    \/ FileOpen
    \/ FilesEnd
    \/ LineDecodeError
    \/ LineSkipped
    \/ LineYielded
    \/ FileEnd

SpecIter == InitIter /\ [][NextIter]_vars

\* the lines read so far
LinesRead ==
    AllLines(SubSeq(it_files, 1, it_file - 1)) \o
    (IF it_pc = "lines"
     THEN SubSeq(it_files[it_file].lines, 1, it_line - 1)
     ELSE <<>>)

\* C18: a path that does not exist and a line that is not JSON are each
\* skipped and the generator goes on: it never aborts, what it has yielded
\* is always the valid documents of the lines read so far in their order,
\* and at the end those of all the lines of all the files that exist.
IterSkipsAndContinues ==
    /\ it_pc # "raised"
    /\ it_pc # "idle" => it_out = iter_jsonl_texts(LinesRead)
    /\ it_pc = "done" => it_out = iter_jsonl_texts(AllLines(it_files))

\* a valid document, a line that is not JSON, a path that does not exist,
\* another valid document: both documents yielded, in that order
IterWitness ==
    /\ it_pc = "done"
    /\ Len(it_files) = 3
    /\ it_files[1].exists
    /\ Len(it_files[1].lines) = 2
    /\ Yields(it_files[1].lines[1])
    /\ ~it_files[1].lines[2].json
    /\ ~it_files[2].exists
    /\ it_files[3].exists
    /\ Len(it_files[3].lines) = 1
    /\ Yields(it_files[3].lines[1])
    /\ it_out = <<CleanedText(it_files[1].lines[1]),
                  CleanedText(it_files[3].lines[1])>>

----------------------------------------------------------------------------
(* Python floats.  The confidence is a sum of the literals 0.2, 0.3 and    *)
(* 0.1, computed in IEEE 754 double precision, where 0.1 + 0.2 is not 0.3. *)
(* A double is written <<t, e>>: the number t/10 + e * u with               *)
(* u = 2^-56 / 5.  Counted in units of u it is the integer t * 2^55 + e,    *)
(* and the doubles of a binade are the multiples of the binade's spacing.   *)

RECURSIVE Pow2Mod(_, _)
Pow2Mod(n, m) == IF n = 0 THEN 1 % m ELSE (2 * Pow2Mod(n - 1, m)) % m

\* 2^55 modulo twice the largest spacing, of which every spacing is a
\* divisor
TwoTo55 == Pow2Mod(55, 320)

\* t * 2^55 + e modulo m, for m a divisor of 320
UnitsMod(x, m) == (x[1] * (TwoTo55 % m) + x[2]) % m

\* the distance between neighbouring doubles around x, in units of u:
\* 2^-51 in [2, 4), 2^-52 in [1, 2), 2^-53 in [1/2, 1), ..., 2^-56 in
\* [1/16, 1/8)
Spacing(x) ==
    IF x[1] > 20 \/ (x[1] = 20 /\ x[2] >= 0) THEN 160
    ELSE IF x[1] > 10 \/ (x[1] = 10 /\ x[2] >= 0) THEN 80
    ELSE IF x[1] > 5 \/ (x[1] = 5 /\ x[2] >= 0) THEN 40
    ELSE IF x[1] >= 3 THEN 20
    ELSE IF x[1] >= 2 THEN 10
    ELSE 5

\* the double nearest to x, ties to the even mantissa
RoundToDouble(x) ==
    IF x[1] = 0 THEN x
    ELSE LET s == Spacing(x)
             r == UnitsMod(x, s)
             odd == UnitsMod(x, 2 * s) >= s
             up == 2 * r > s \/ (2 * r = s /\ odd)
         IN IF r = 0 THEN x
            ELSE IF up THEN <<x[1], x[2] + s - r>>
            ELSE <<x[1], x[2] - r>>

\* the literal with the decimal value t/10: 0.0, 0.1, 0.2, 0.3, ... 1.0
Decimal(t) == RoundToDouble(<<t, 0>>)

\* a + b
FloatAdd(a, b) == RoundToDouble(<<a[1] + b[1], a[2] + b[2]>>)

\* n * a, for an int n
FloatTimes(n, a) == RoundToDouble(<<n * a[1], n * a[2]>>)

\* a > b, a >= b
FloatGt(a, b) == a[1] > b[1] \/ (a[1] = b[1] /\ a[2] > b[2])
FloatGeq(a, b) == a[1] > b[1] \/ (a[1] = b[1] /\ a[2] >= b[2])

\* min(a, b)
FloatMin(a, b) == IF FloatGeq(b, a) THEN a ELSE b

----------------------------------------------------------------------------
(* The regular expressions of check_for_modern_references, character by    *)
(* character.  Offsets count from 0, as Python's.                           *)

Digits == <<"0","1","2","3","4","5","6","7","8","9">>

\* s[k], or no character at all outside the string
CharAt(s, k) == IF 0 <= k /\ k < Len(s) THEN s[k + 1] ELSE ""

\* \d and \w
IsDigit(c) == IsOneOf(Digits, c)
WordChars ==
    {Digits[k] : k \in DOMAIN Digits}
    \cup {LowerLetters[k] : k \in DOMAIN LowerLetters}
    \cup {UpperLetters[k] : k \in DOMAIN UpperLetters} \cup {"_"}
IsWordChar(c) == c \in WordChars

\* \b at offset i: a word character on exactly one side
Boundary(s, i) == IsWordChar(CharAt(s, i - 1)) # IsWordChar(CharAt(s, i))

\* \d{n} at offset i
DigitsAt(s, i, n) == \A k \in i..(i + n - 1) : IsDigit(CharAt(s, k))

\* the literal sub at offset i
LiteralAt(s, i, sub) ==
    i + Len(sub) <= Len(s) /\ Slice(s, i, i + Len(sub)) = sub

\* int(digits) and str(n)
RECURSIVE ParseInt(_)
ParseInt(ds) ==
    IF ds = <<>> THEN 0
    ELSE 10 * ParseInt(SliceTo(ds, Len(ds) - 1))
         + (Position(Digits, ds[Len(ds)]) - 1)
RECURSIVE FormatInt(_)
FormatInt(n) ==
    IF n < 10 THEN <<Digits[n + 1]>>
    ELSE FormatInt(n \div 10) \o <<Digits[(n % 10) + 1]>>

\* (19\d{2}|20\d{2}) at offset i
CenturyYearAt(s, i) ==
    (LiteralAt(s, i, <<"1","9">>) \/ LiteralAt(s, i, <<"2",
        "0">>)) /\ DigitsAt(s, i + 2, 2)

\* \b(19\d{2}|20\d{2})\b matches at offset i
YearAt(s, i) ==
    Boundary(s, i) /\ CenturyYearAt(s, i) /\ Boundary(s, i + 4)

\* lines 152-155: one entry for every match, from left to right, whose year
\* is after the cutoff.  Two matches never overlap, since each has a word
\* boundary at either end, so finditer finds every offset that matches.
YearReferences(text, cutoff_year) ==
    LET at == {i \in 0..(Len(text) - 4) :
                  YearAt(text, i)
                  /\ ParseInt(Slice(text, i, i + 4)) > cutoff_year}
        offset[k \in 1..Cardinality(at)] ==
            CHOOSE i \in at : Cardinality({j \in at : j < i}) = k - 1
    IN [k \in 1..Cardinality(at) |->
           <<"Y","e","a","r"," ","r","e","f","e","r","e","n","c","e",":",
               " ">> \o FormatInt(ParseInt(Slice(text, offset[k],
                                                offset[k] + 4)))]

\* \b\d{1,2}/\d{1,2}/(?:19|20)\d{2}\b matches somewhere
ModernDate(s) ==
    \E i \in {k \in 0..Len(s) : Boundary(s, k)}, a \in 1..2, b \in 1..2 :
        /\ DigitsAt(s, i, a)
        /\ CharAt(s, i + a) = "/"
        /\ DigitsAt(s, i + a + 1, b)
        /\ CharAt(s, i + a + 1 + b) = "/"
        /\ CenturyYearAt(s, i + a + b + 2)
        /\ Boundary(s, i + a + b + 6)

\* @\w+\.\w+ matches somewhere
EmailHost(s) ==
    \E i \in 0..Len(s) :
        /\ CharAt(s, i) = "@"
        /\ \E n \in 1..Len(s) :
              /\ \A k \in (i + 1)..(i + n) : IsWordChar(CharAt(s, k))
              /\ CharAt(s, i + n + 1) = "."
              /\ IsWordChar(CharAt(s, i + n + 2))

\* https?://|www\.|\.com|\.org|@\w+\.\w+ matches somewhere
UrlOrEmail(s) ==
    \/ Contains(s, <<"h","t","t","p",":","/","/">>)
    \/ Contains(s, <<"h","t","t","p","s",":","/","/">>)
    \/ Contains(s, <<"w","w","w",".">>)
    \/ Contains(s, <<".","c","o","m">>)
    \/ Contains(s, <<".","o","r","g">>)
    \/ EmailHost(s)

\* \$\d{1,3}(,\d{3})+ matches somewhere
LargeDollars(s) ==
    \E i \in 0..Len(s), n \in 1..3 :
        /\ CharAt(s, i) = "$"
        /\ DigitsAt(s, i + 1, n)
        /\ CharAt(s, i + 1 + n) = ","
        /\ DigitsAt(s, i + 2 + n, 3)

\* lines 142-170; the text is lowered once
check_for_modern_references(text, cutoff_year) ==
    YearReferences(text, cutoff_year)
    \o (IF ModernDate(text) THEN <<<<"M","o","d","e","r","n"," ","d","a",
        "t","e"," ","f","o","r","m","a","t">>>> ELSE <<>>)
    \o (IF \E text_lower \in {Lower(text)} : UrlOrEmail(text_lower)
        THEN <<<<"U","R","L"," ","o","r"," ","e","m","a","i","l"," ","a",
            "d","d","r","e","s","s">>>>
        ELSE <<>>)
    \o (IF LargeDollars(text) THEN <<<<"M","o","d","e","r","n"," ","c","u",
        "r","r","e","n","c","y"," ","f","o","r","m","a","t">>>> ELSE <<>>)

----------------------------------------------------------------------------
(* check_contamination *)

\* s[:n] for any n >= 0
Prefix(s, n) == SliceTo(s, IF n < Len(s) THEN n ELSE Len(s))

\* lines 220-226
intro_markers ==
    << <<"i","n","t","r","o","d","u","c","t","i","o","n"," ","b","y">>,
       <<"e","d","i","t","e","d"," ","b","y">>,
       <<"a","n","n","o","t","a","t","e","d"," ","b","y">>,
       <<"f","o","r","e","w","o","r","d"," ","b","y">>,
       <<"n","o","t","e","s"," ","b","y">> >>

\* the terms of the lexicon found in the text (line 201)
MatchedTerms(text_lower, anachronisms) ==
    {term \in anachronisms : Contains(text_lower, term)}

\* the orders in which a for loop can meet the members of a Python set
IterationOrders(S) ==
    {order \in [1..Cardinality(S) -> S] :
        \A j, k \in 1..Cardinality(S) : j # k => order[j] # order[k]}

\* the one member of a set of one
The(S) == CHOOSE x \in S : TRUE

\* lines 217 and 228: text_lower[:2000], text_lower[:5000]
BannerWindow == 2000
MarkerWindow == 5000

\* the markers found anywhere in a text that names Project Gutenberg
AnnotationMarkersAnywhere(text_lower) ==
    IF Contains(text_lower, <<"p","r","o","j","e","c","t"," ","g","u","t",
           "e","n","b","e","r","g">>)
    THEN SelectSeq(intro_markers, LAMBDA marker : Contains(text_lower, marker))
    ELSE <<>>

\* lines 217-230, for a text that names Project Gutenberg near its start
AnnotationMarkers(text_lower) ==
    The({ IF Contains(banner_part, <<"p","r","o","j","e","c","t"," ","g",
              "u","t","e","n","b","e","r","g">>)
          THEN SelectSeq(intro_markers,
                         LAMBDA marker : Contains(marker_part, marker))
          ELSE <<>> :
            banner_part \in {Prefix(text_lower, BannerWindow)},
            marker_part \in {Prefix(text_lower, MarkerWindow)} })

\* confidence = min(1.0, confidence + step), n times over
Raise(confidence, step, n) ==
    LET raised[k \in 0..n] ==
            IF k = 0 THEN confidence
            ELSE FloatMin(Decimal(10), FloatAdd(raised[k - 1], step))
    IN raised[n]

\* lines 232-239, from what the loops of lines 200-230 found
Verdict(anachronisms, modern_refs, markers, threshold) ==
    LET confidence ==
            Raise(Raise(Raise(Decimal(0), Decimal(2), Len(anachronisms)),
                        Decimal(3), Len(modern_refs)),
                  Decimal(1), Len(markers))
    IN [ is_contaminated |-> FloatGeq(confidence, threshold),
         confidence |-> confidence,
         reasons |->
             [k \in DOMAIN anachronisms |->
                 <<"A","n","a","c","h","r","o","n","i","s","t","i","c"," ",
                     "t","e","r","m"," ","'">> \o anachronisms[k] \o <<"'",
                     " ","f","o","u","n","d">>]
             \o modern_refs
             \o [k \in DOMAIN markers |->
                    <<"P","o","s","s","i","b","l","e"," ","m","o","d","e",
                        "r","n"," ","a","n","n","o","t","a","t","i","o","n",
                        ":"," ","'">> \o markers[k] \o <<"'">>],
         matched_terms |-> anachronisms ]

\* lines 173-239; anachronisms is the matched part of the lexicon in the
\* order the for loop of line 200 meets it.  The references and the markers
\* are each computed once.
check_contamination(text, cutoff_year, threshold, anachronisms) ==
    The({ Verdict(anachronisms, modern_refs, markers, threshold) :
            modern_refs \in {check_for_modern_references(text, cutoff_year)},
            markers \in {AnnotationMarkers(Lower(text))} })


----------------------------------------------------------------------------
(* check_contamination called on a text, and called again on the text with *)
(* a term of the lexicon added                                             *)

\* the longest term of the lexicon that is added to a text
MaxTermLen == 5

TextPieces ==
    { <<>>, <<"H","i","t","l","e","r">>, <<"a","i","r","p","l","a","n",
        "e">>, <<"1","9","3","9">>, <<"1","9","0","5">>, <<" ">>, <<"x">>,
      <<"w","w","w",".">>, <<"$","1",",","0","0","0">>, <<"5","/","6","/",
          "1","9","5","0">>,
      <<"P","r","o","j","e","c","t"," ","G","u","t","e","n","b","e","r",
          "g">>, <<"e","d","i","t","e","d"," ","b","y">>, <<"n","o","t","e",
          "s"," ","b","y">> }

\* the texts of lines 325 and 326, and the empty text
AirplaneText == <<"T","h","e"," ","a","i","r","p","l","a","n","e"," ","f",
    "l","e","w"," ","o","v","e","r"," ","t","h","e"," ","c","i","t","y",
    ".">>
HitlerText == <<"H","i","t","l","e","r"," ","i","n","v","a","d","e","d"," ",
    "P","o","l","a","n","d"," ","i","n"," ","1","9","3","9",".">>
\* a Gutenberg text with four editorial markers and two years, and a text
\* with two years only
AnnotatedText == <<"P","r","o","j","e","c","t"," ","G","u","t","e","n","b",
    "e","r","g",":"," ","i","n","t","r","o","d","u","c","t","i","o","n"," ",
    "b","y"," ","A",","," ","e","d","i","t","e","d"," ","b","y"," ","B",",",
    " ","a","n","n","o","t","a","t","e","d"," ","b","y"," ","C",","," ","f",
    "o","r","e","w","o","r","d"," ","b","y"," ","D","."," ","F","r","o","m",
    " ","1","9","3","9"," ","t","o"," ","1","9","4","5",".">>
TwoYearsText == <<"F","r","o","m"," ","1","9","3","9"," ","t","o"," ","1",
    "9","4","5",".">>
ScenarioTexts ==
    {AirplaneText, HitlerText, <<>>, AnnotatedText, TwoYearsText}

\* texts that put the banner and a marker at the ends of the windows of
\* lines 217 and 228: n blanks
Padding(n) == [k \in 1..n |-> " "]
BannerText == <<"P","r","o","j","e","c","t"," ","G","u","t","e","n","b","e",
    "r","g">>
MarkerText == <<"e","d","i","t","e","d"," ","b","y">>
YearText == <<"I","n"," ","1","9","3","9"," ">>

\* a year, the banner ending at offset banner_end, the marker ending at
\* offset marker_end
WindowText(banner_end, marker_end) ==
    YearText \o Padding(banner_end - Len(YearText) - Len(BannerText))
    \o BannerText
    \o Padding(marker_end - banner_end - Len(MarkerText)) \o MarkerText

WindowTexts ==
    { WindowText(BannerWindow, MarkerWindow),
      WindowText(BannerWindow, MarkerWindow + 1),
      WindowText(BannerWindow + 1, BannerWindow + 1 + Len(MarkerText)) }

ChkTexts ==
    ScenarioTexts \cup WindowTexts
    \cup {a \o b : a \in TextPieces, b \in TextPieces}

ChkCutoffs == {0, 1900, 1913}

\* line 177: threshold: float = 0.3; None is a call that leaves it out
HighThreshold == Decimal(5)
DefaultThreshold == Decimal(3)
ConfidenceThresholds == {None, Some(Decimal(0)), Some(Decimal(5))}
Threshold(arg) == IF IsNone(arg) THEN DefaultThreshold ELSE Value(arg)

InitCheck ==
    /\ chk_pc = "call"
    /\ chk_text \in ChkTexts
    /\ chk_cutoff \in ChkCutoffs
    /\ chk_threshold \in ConfidenceThresholds
    /\ chk_result = None
    /\ chk_term = None
    /\ chk_base = None
    /\ PackIdle
    /\ LexIdle
    /\ CleanIdle
    /\ IterIdle

chkOthers == <<packVars, lexVars, cleanVars, iterVars>>

\* line 197, for the cutoff years tried: the lexicon is computed once
Lexicon == [cutoff_year \in ChkCutoffs |-> get_all_anachronisms(cutoff_year)]

\* lines 173-239
CheckCall ==
    /\ chk_pc = "call"
    /\ \E text_lower \in {Lower(chk_text)} :
       \E matched \in {MatchedTerms(text_lower, Lexicon[chk_cutoff])} :
       \E anachronisms \in IterationOrders(matched) :
          chk_result' = Some(check_contamination(chk_text, chk_cutoff,
                                                 Threshold(chk_threshold),
                                                 anachronisms))
    /\ chk_pc' = "done"
    /\ UNCHANGED <<chkOthers, chk_text, chk_cutoff, chk_threshold, chk_term,
                   chk_base>>

\* a text with a term added: at its end, or in front of it as a word
WithTerm(text, term) == {text \o term, term \o <<" ">> \o text}

\* a text judged clean in a call that left the threshold out is given
\* again with a term of get_all_anachronisms(cutoff_year) added
AddTerm ==
    /\ chk_pc = "done"
    /\ chk_term = None
    /\ chk_threshold = None
    /\ ~Value(chk_result).is_contaminated
    /\ \E term \in Lexicon[chk_cutoff] :
          /\ Len(term) <= MaxTermLen
          /\ chk_term' = Some(term)
          /\ chk_text' \in WithTerm(chk_text, term)
    /\ chk_base' = chk_result
    /\ chk_result' = None
    /\ chk_pc' = "call"
    /\ UNCHANGED <<chkOthers, chk_cutoff, chk_threshold>>

NextCheck ==
    \/ CheckCall
    \/ AddTerm

SpecCheck == InitCheck /\ [][NextCheck]_vars

----------------------------------------------------------------------------
(* Properties of check_contamination *)

\* the verdict of the call that has returned
Result == Value(chk_result)

\* the call is the first one on its text, with the threshold left out
DefaultCall == chk_pc = "done" /\ chk_threshold = None /\ chk_term = None

\* C11: for every text, cutoff and threshold the verdict satisfies
\* is_contaminated = (confidence >= threshold), the threshold being 0.3
\* when the call leaves it out.
VerdictIsThreshold ==
    chk_pc = "done" =>
        LET threshold == IF chk_threshold = None THEN Decimal(3)
                         ELSE Value(chk_threshold)
            confidence == Result.confidence
        IN Result.is_contaminated =
              (\/ confidence[1] > threshold[1]
               \/ (confidence[1] = threshold[1] /\ confidence[2] >= threshold[2]))

\* a call without threshold whose confidence is exactly 0.3: contaminated
VerdictWitness ==
    /\ DefaultCall
    /\ Result.confidence = Decimal(3)
    /\ Result.is_contaminated

\* C12 as stated: with the default threshold the airplane text is judged
\* contaminated for cutoff 1900 and not contaminated for cutoff 1913.
AirplaneScenario ==
    (DefaultCall /\ chk_text = AirplaneText /\ chk_cutoff \in {1900, 1913}) =>
        Result.is_contaminated = (chk_cutoff = 1900)

\* C13: with the default threshold and cutoff 1913 the Hitler text is judged
\* contaminated, a Hitler term of the lexicon is among matched_terms and a
\* year reference for 1939 is among the reasons.
HitlerScenario ==
    (DefaultCall /\ chk_text = HitlerText /\ chk_cutoff = 1913) =>
        /\ Result.is_contaminated
        /\ \E k \in DOMAIN Result.matched_terms :
              Result.matched_terms[k] = <<"h","i","t","l","e","r">>
        /\ \E k \in DOMAIN Result.reasons :
              Result.reasons[k] = <<"Y","e","a","r"," ","r","e","f","e","r",
                  "e","n","c","e",":"," ","1","9","3","9">>

HitlerWitness ==
    /\ DefaultCall
    /\ chk_text = HitlerText
    /\ chk_cutoff = 1913
    /\ Result.is_contaminated
    /\ Len(Result.reasons) = 2

EmptyTextClean ==
    /\ chk_pc = "done" => chk_result # None
    /\ (DefaultCall /\ chk_text = <<>>) =>
          /\ ~Result.is_contaminated
          /\ Result.confidence = <<0, 0>>
          /\ Result.reasons = <<>>
          /\ Result.matched_terms = <<>>

EmptyTextWitness ==
    /\ DefaultCall
    /\ chk_text = <<>>
    /\ ~Result.is_contaminated

----------------------------------------------------------------------------
(* package_shards without max_shards: what is packaged *)

\* how often a document occurs in a sequence
Occurrences(doc, docs) == Cardinality({k \in DOMAIN docs : docs[k] = doc})

\* C27: with max_shards absent nothing is lost and nothing is duplicated:
\* the document lists of the written shards, joined in index order, are the
\* shuffled accepted sequence, and every accepted document is packaged as
\* often as it was accepted.
NothingLost ==
    (pc = "done" /\ IsNone(max_shards)) =>
        /\ \A k \in DOMAIN files : files[k].index = k - 1
        /\ DocsIn(files) = all_texts
        /\ \A k \in DOMAIN input_lines :
              Yields(input_lines[k]) =>
                  Occurrences(CleanedText(input_lines[k]), DocsIn(files)) =
                  Occurrences(CleanedText(input_lines[k]),
                              iter_jsonl_texts(input_lines))
        /\ Len(DocsIn(files)) = Len(iter_jsonl_texts(input_lines))

\* three accepted documents, shuffled into another order, in several shards
NothingLostWitness ==
    /\ pc = "done"
    /\ IsNone(max_shards)
    /\ Len(all_texts) = 3
    /\ all_texts # iter_jsonl_texts(input_lines)
    /\ Len(files) >= 2
    /\ LastFile.by = "flush"
    /\ DocsIn(files) = all_texts

\* C26 as stated: every document written into a shard has at least 100
\* characters.
MinLengthEmitted ==
    \A k \in DOMAIN files :
        \A j \in DOMAIN files[k].docs : files[k].docs[j].len >= 100

----------------------------------------------------------------------------
(* The order of normalizer and detector in iter_jsonl_texts (lines 57-74) *)

\* records with and without Gutenberg headers, of either source: stripped
\* is what clean_gutenberg_headers makes of the text
FlowLines ==
    { BadLine,
      Record("other",     Text("s", 50),  Text("s", 50),  FALSE),
      Record("other",     Text("a", 100), Text("a", 100), FALSE),
      Record("gutenberg", Text("G", 300), Text("g", 120), FALSE),
      Record("other",     Text("H", 300), Text("h", 120), FALSE),
      Record("other",     Text("x", 200), Text("x", 200), TRUE) }

InitFlow ==
    /\ it_pc = "file"
    /\ it_files \in {<<MissingFile, ExistingFile(lines)>> :
                        lines \in SeqsUpTo(FlowLines, MaxLines)}
    /\ it_file = 1
    /\ it_line = 1
    /\ it_out = <<>>
    /\ it_seen = <<>>
    /\ PackIdle
    /\ LexIdle
    /\ CleanIdle
    /\ ChkIdle

SpecFlow == InitFlow /\ [][NextIter]_vars

\* the records read so far that got as far as the detector, and those that
\* were yielded
Checked == SelectSeq(LinesRead, ReachesDetector)
Accepted == SelectSeq(LinesRead, Yields)

\* C25 as stated: the detector only ever sees the normalizer's result, and
\* the text yielded for packaging is the normalizer's result, for every
\* record.
NormalizedBeforeDetection ==
    it_pc # "idle" =>
        /\ it_seen = [k \in DOMAIN Checked |-> Checked[k].stripped]
        /\ it_out = [k \in DOMAIN Accepted |-> Accepted[k].stripped]

\* C25 amended: that holds for the records whose source is gutenberg; the
\* text of any other record goes to the detector and into the output as it
\* was read.
GutenbergNormalizedBeforeDetection ==
    it_pc # "idle" =>
        /\ Len(it_seen) = Len(Checked)
        /\ Len(it_out) = Len(Accepted)
        /\ \A k \in DOMAIN Checked :
              it_seen[k] = IF Checked[k].source = "gutenberg"
                           THEN Checked[k].stripped
                           ELSE Checked[k].text
        /\ \A k \in DOMAIN Accepted :
              it_out[k] = IF Accepted[k].source = "gutenberg"
                          THEN Accepted[k].stripped
                          ELSE Accepted[k].text

\* a gutenberg record and a record of another source, both with headers:
\* the first is yielded stripped, the second as read
FlowWitness ==
    /\ it_pc = "done"
    /\ Len(it_out) = 2
    /\ Len(Accepted) = 2
    /\ Accepted[1].source = "gutenberg"
    /\ it_out[1] = Accepted[1].stripped
    /\ it_out[1] # Accepted[1].text
    /\ Accepted[2].source = "other"
    /\ Accepted[2].stripped # Accepted[2].text
    /\ it_out[2] = Accepted[2].text
    /\ it_seen = it_out

----------------------------------------------------------------------------
(* clean_gutenberg_headers: the header marker line *)

\* what is left of the text when everything up to and including the line
\* that holds the first header-end marker found is discarded
AfterMarkerLine(text) ==
    LET found == MarkersFound(text, header_end_markers)
    IN IF found = {} THEN text
       ELSE LET idx == FindMarker(text, header_end_markers[Min(found)])
                end_idx == Find(text, Newline, idx)
            IN IF end_idx # -1 THEN SliceFrom(text, end_idx + 1) ELSE <<>>

\* C21: when a header-end marker occurs in the text, the result is made of
\* what follows the marker line only, so the marker line is never in it,
\* also when the marker line is the last line and no line break follows it.
MarkerLineDiscarded ==
    clean_calls = 1 =>
        clean_text = Strip(RemoveFooter(AfterMarkerLine(clean_arg)))

----------------------------------------------------------------------------
(* The confidence of check_contamination as a formula *)

\* T, M and A: the terms of the lexicon that occur in the lower-cased text,
\* the reasons of check_for_modern_references, the annotation reasons
TermsInText == MatchedTerms(Lower(chk_text), Lexicon[chk_cutoff])
ModernReasons == check_for_modern_references(chk_text, chk_cutoff)
AnnotationReasons == AnnotationMarkers(Lower(chk_text))

\* min(1.0, 0.2*T + 0.3*M + 0.1*A), as Python computes the expression
ClosedForm(T, M, A) ==
    FloatMin(Decimal(10),
             FloatAdd(FloatAdd(FloatTimes(T, Decimal(2)),
                               FloatTimes(M, Decimal(3))),
                      FloatTimes(A, Decimal(1))))

\* the double nearest to the number min(1, (2*T + 3*M + A) / 10)
NearestForm(T, M, A) == FloatMin(Decimal(10), Decimal(2 * T + 3 * M + A))

\* C22: the confidence returned is min(1.0, 0.2*T + 0.3*M + 0.1*A), be it
\* the value of the expression in floats or the float nearest to the
\* number; it lies in [0, 1], and matched_terms has T members.
ConfidenceClosedForm ==
    chk_pc = "done" =>
        \A T \in {Cardinality(TermsInText)}, M \in {Len(ModernReasons)},
           A \in {Len(AnnotationReasons)} :
            /\ Result.confidence \in {ClosedForm(T, M, A),
                                      NearestForm(T, M, A)}
            /\ FloatGeq(Result.confidence, Decimal(0))
            /\ FloatGeq(Decimal(10), Result.confidence)
            /\ Len(Result.matched_terms) = T

----------------------------------------------------------------------------
(* The reasons of check_for_modern_references by pattern category *)

\* how the reasons of the four pattern categories begin (lines 155-168)
CategoryPrefixes ==
    << <<"Y","e","a","r"," ","r","e","f","e","r","e","n","c","e",":",
        " ">>, <<"M","o","d","e","r","n"," ","d","a","t","e"," ","f","o",
        "r","m","a","t">>,
       <<"U","R","L"," ","o","r"," ","e","m","a","i","l"," ","a","d","d",
           "r","e","s","s">>, <<"M","o","d","e","r","n"," ","c","u","r","r",
           "e","n","c","y"," ","f","o","r","m","a","t">> >>

\* the positions in reasons of the reasons of a category
ReasonsOfCategory(reasons, c) ==
    {k \in DOMAIN reasons :
        Prefix(reasons[k], Len(CategoryPrefixes[c])) = CategoryPrefixes[c]}

\* the categories that have a reason at all
CategoriesFound(reasons) ==
    {c \in DOMAIN CategoryPrefixes : ReasonsOfCategory(reasons, c) # {}}

\* C23: in one scan every pattern category gives at most one reason and
\* raises the confidence by 0.3 at most once, however many matches it has.
OneReasonPerCategory ==
    chk_pc = "done" =>
        \A reasons \in {Result.reasons}, T \in {Len(Result.matched_terms)},
           A \in {Len(AnnotationReasons)} :
            /\ \A c \in DOMAIN CategoryPrefixes :
                  Cardinality(ReasonsOfCategory(reasons, c)) <= 1
            /\ Result.confidence =
                  Raise(Raise(Raise(Decimal(0), Decimal(2), T), Decimal(3),
                              Cardinality(CategoriesFound(reasons))),
                        Decimal(1), A)

----------------------------------------------------------------------------
(* The annotation reasons of check_contamination *)

\* sub occurs in s, case-insensitively, within the first window characters
OccursWithin(s, sub, window) ==
    \E i \in 0..(Min({Len(s), window}) - Len(sub)) :
        Lower(Slice(s, i, i + Len(sub))) = sub

\* line 229: the reason given for a marker
AnnotationReason(marker) ==
    <<"P","o","s","s","i","b","l","e"," ","m","o","d","e","r","n"," ","a",
        "n","n","o","t","a","t","i","o","n",":"," ",
        "'">> \o marker \o <<"'">>

\* the markers that ought to give a reason for the text
MarkersDue(text) ==
    IF OccursWithin(text, <<"p","r","o","j","e","c","t"," ","g","u","t","e",
        "n","b","e","r","g">>, BannerWindow)
    THEN {k \in DOMAIN intro_markers :
             OccursWithin(text, intro_markers[k], MarkerWindow)}
    ELSE {}

\* C24: there are annotation reasons only when the banner occurs within the
\* first 2000 characters; then each of the five markers that occurs within
\* the first 5000 characters gives exactly one reason and raises the
\* confidence by 0.1 (up to 1.0), and no other marker gives one.
AnnotationWindows ==
    chk_pc = "done" =>
        \A reasons \in {Result.reasons}, due \in {MarkersDue(chk_text)} :
            /\ \A k \in DOMAIN intro_markers :
                  Cardinality({j \in DOMAIN reasons :
                      reasons[j] = AnnotationReason(intro_markers[k])})
                  = IF k \in due THEN 1 ELSE 0
            /\ Result.confidence =
                  Raise(Raise(Raise(Decimal(0), Decimal(2),
                                    Len(Result.matched_terms)),
                              Decimal(3),
                              Len(reasons) - Len(Result.matched_terms)
                                  - Cardinality(due)),
                        Decimal(1), Cardinality(due))

\* the banner ends at offset 2000 and the marker at offset 5000: the marker
\* gives its reason and 0.1 on top of the 0.3 of the year
AnnotationWitness ==
    /\ chk_pc = "done"
    /\ chk_text = WindowText(BannerWindow, MarkerWindow)
    /\ Len(Result.reasons) = 2
    /\ Result.reasons[2] = AnnotationReason(MarkerText)
    /\ Result.confidence = FloatAdd(Decimal(3), Decimal(1))

====
